---- MODULE Spec2Model ----
(***************************************************************************)
(* Model of src/main.go: a disassembler / simulator for a LEGv8 subset.    *)
(*                                                                         *)
(* Text is modelled as a sequence of characters: 0 and 1 are the           *)
(* characters '0' and '1', 2 is a blank.  An int64 is modelled as a        *)
(* 64-bit vector, most significant bit first, so that the width of the     *)
(* machine arithmetic is kept.                                             *)
(*                                                                         *)
(* Control structure of main, as the braces of the source have it:         *)
(*   - the scanner loop (245-253) holds only the length test: a line whose *)
(*     trimmed length is not 32 gets a diagnostic, any other line gets     *)
(*     nothing, and the loop goes on;                                      *)
(*   - the decode ladder (256-463) stands after the loop and runs once, on *)
(*     binaryNumber.  binaryNumber is declared inside the loop body (247); *)
(*     the ladder reads the value of the last iteration (the empty string  *)
(*     when no line was read);                                             *)
(*   - inside the ladder, the R-format test (264) encloses everything      *)
(*     else: the SHIFT, D and I tests are else-branches of the ADD / SUB / *)
(*     AND / ORR / EOR chain (275-337), the B, CB, IM, NOP, BREAK and      *)
(*     unknown cases are else-branches of the ADDI / SUBI chain (353-449), *)
(*     and the trace output and the advance of memLocation and cycle       *)
(*     (451-458) belong to the I block;                                    *)
(*   - simulate (73-159) is defined but never called.                      *)
(***************************************************************************)
EXTENDS Integers, Sequences, FiniteSets, TLC

\* ------------------------------------------------------------------ bounds
\* Longest input stream (number of lines) that Init draws.
MaxLines == 2

\* ------------------------------------------------------------ 64-bit words
Zero64 == [i \in 1..64 |-> 0]

RECURSIVE Pow2(_)
Pow2(n) == IF n = 0 THEN 1 ELSE 2 * Pow2(n - 1)

\* the value of the 16-bit limb k of a word (limb 0 is the least significant)
RECURSIVE LimbFrom(_, _, _)
LimbFrom(a, k, j) ==
    IF j = 16 THEN 0 ELSE a[64 - (16 * k + j)] * Pow2(j) + LimbFrom(a, k, j + 1)
Limb(a, k) == LimbFrom(a, k, 0)

\* the limb sums of a + b + cin, least significant first, each with the carry
\* of the limb below it
RECURSIVE LimbSums(_, _, _, _)
LimbSums(a, b, cin, k) ==
    IF k = 4 THEN <<>>
    ELSE <<Limb(a, k) + Limb(b, k) + cin>>
         \o LimbSums(a, b, (Limb(a, k) + Limb(b, k) + cin) \div 65536, k + 1)

\* bit i of the word whose limb sums are given
SumBit(sums, i) == (sums[((64 - i) \div 16) + 1] \div Pow2((64 - i) % 16)) % 2

\* a + b + cin modulo 2^64
AddC(a, b, cin) ==
    LET sums == LimbSums(a, b, cin, 0) IN [i \in 1..64 |-> SumBit(sums, i)]
Not64(a) == [i \in 1..64 |-> 1 - a[i]]

\* Go: a + b on int64 (wraps)
Add64(a, b) == AddC(a, b, 0)
\* Go: a - b on int64 (wraps)
Sub64(a, b) == AddC(a, Not64(b), 1)
\* Go: a & b, a | b, a ^ b, a &^ b
And64(a, b) == [i \in 1..64 |-> IF a[i] = 1 /\ b[i] = 1 THEN 1 ELSE 0]
Or64(a, b) == [i \in 1..64 |-> IF a[i] = 1 \/ b[i] = 1 THEN 1 ELSE 0]
Xor64(a, b) == [i \in 1..64 |-> IF a[i] # b[i] THEN 1 ELSE 0]
AndNot64(a, b) == [i \in 1..64 |-> IF a[i] = 1 /\ b[i] = 0 THEN 1 ELSE 0]
\* Go: a << n on int64, n >= 0 (bits shifted out are lost, n >= 64 gives 0)
Shl64(a, n) == [i \in 1..64 |-> IF i + n <= 64 THEN a[i + n] ELSE 0]
\* Go: a >> n on int64, n >= 0 (arithmetic: the sign bit is copied in)
Shr64(a, n) == [i \in 1..64 |-> IF i - n >= 1 THEN a[i - n] ELSE a[1]]
\* Go: int64(int32(a)): keep the low 32 bits, sign-extend from bit 31
Int32(a) == [i \in 1..64 |-> IF i > 32 THEN a[i] ELSE a[33]]

\* the int64 whose only set bit is bit n (int64(math.Pow(2, n)), 0 <= n < 63)
Bit64(n) == [i \in 1..64 |-> IF i = 64 - n THEN 1 ELSE 0]

\* the integer a word stands for, for words of magnitude below 2^30
RECURSIVE Low(_, _)
Low(a, i) == IF i > 64 THEN 0 ELSE a[i] * Pow2(64 - i) + Low(a, i + 1)
ToInt(a) == IF a[1] = 0 THEN Low(a, 35) ELSE Low(a, 35) - Pow2(30)

\* ------------------------------------------------------------------- text
\* Go: s[a:b]
Slice(s, a, b) == SubSeq(s, a + 1, b)
\* fmt "%.Ns": at most N characters
Prec(s, n) == IF Len(s) <= n THEN s ELSE SubSeq(s, 1, n)

RECURSIVE TrimLeft(_)
TrimLeft(s) == IF s # <<>> /\ Head(s) = 2 THEN TrimLeft(Tail(s)) ELSE s
RECURSIVE TrimRight(_)
TrimRight(s) ==
    IF s # <<>> /\ s[Len(s)] = 2 THEN TrimRight(SubSeq(s, 1, Len(s) - 1)) ELSE s
\* strings.TrimSpace
TrimSpace(s) == TrimRight(TrimLeft(s))

\* strconv.ParseInt(s, 2, 64) with the error dropped: the value of the binary
\* digits, 0 for the empty string and for a string with another character
\* (the fields parsed here are at most 32 characters, so there is no range error)
ParseInt(s) ==
    IF s = <<>> \/ \E i \in 1..Len(s) : s[i] \notin {0, 1} THEN Zero64
    ELSE [i \in 1..64 |-> IF i > 64 - Len(s) THEN s[i - (64 - Len(s))] ELSE 0]

\* ---------------------------------------------------------- opcode tables
\* a lookup in a map[string]string given as its set of <<key, value>> entries:
\* the value of the key, the empty string for a key that is not in the map
Lookup(table, k) ==
    IF \E e \in table : e[1] = k THEN (CHOOSE e \in table : e[1] = k)[2] ELSE ""

\* the entries of the map opcodeIdentifier: <<key, mnemonic>>
OpcodeTable ==
    {
      <<<<0,0,0,1,0,1>>, "B">>,
      <<<<1,0,0,0,1,0,1,0,0,0,0>>, "AND">>,
      <<<<1,0,0,0,1,0,1,1,0,0,0>>, "ADD">>,
      <<<<1,0,0,1,0,0,0,1,0,0>>, "ADDI">>,
      <<<<1,0,1,0,1,0,1,0,0,0,0>>, "ORR">>,
      <<<<1,0,1,1,0,1,0,0>>, "CBZ">>,
      <<<<1,0,1,1,0,1,0,1>>, "CBNZ">>,
      <<<<1,1,0,0,1,0,1,1,0,0,0>>, "SUB">>,
      <<<<1,1,0,1,0,0,0,1,0,0>>, "SUBI">>,
      <<<<1,1,0,1,0,0,1,0,1>>, "MOVZ">>,
      <<<<1,1,1,1,0,0,1,0,1>>, "MOVK">>,
      <<<<1,1,0,1,0,0,1,1,0,1,0>>, "LSR">>,
      <<<<1,1,0,1,0,0,1,1,0,1,1>>, "LSL">>,
      <<<<1,1,1,1,1,0,0,0,0,0,0>>, "STUR">>,
      <<<<1,1,1,1,1,0,0,0,0,1,0>>, "LDUR">>,
      <<<<1,1,0,1,0,0,1,1,1,0,0>>, "ASR">>,
      <<<<0,0,0,0,0,0,0,0,0,0,0,0,0,0,0,0,0,0,0,0,0,0,0,0,0,0,0,0,0,0,0,0>>, "NOP">>,
      <<<<1,1,1,0,1,0,1,0,0,0,0>>, "EOR">>,
      <<<<1,1,1,1,1,1,1,0,1,1,0,1,1,1,1,0,1,1,1,1,1,1,1,1,1,1,1,0,0,1,1,1>>, "BREAK">>,
      <<<<0,0,0,0,0,0>>, " ">>
    }

\* opcodeIdentifier with the entry of the key 000000 giving the mnemonic B
opcodeIdentifierShortB(k) ==
    IF k = <<0, 0, 0, 0, 0, 0>> THEN "B" ELSE Lookup(OpcodeTable, k)

\* opcodeIdentifier[k]: the mnemonic of key k, the empty string for a key that
\* is not in the map
opcodeIdentifier(k) == Lookup(OpcodeTable, k)

\* the entries of the map instructionIdentifier: <<mnemonic, format>>
FormatTable ==
    {
      <<"B", "B">>,
      <<"AND", "R">>,
      <<"ADD", "R">>,
      <<"ADDI", "I">>,
      <<"ORR", "R">>,
      <<"CBZ", "CB">>,
      <<"CBNZ", "CB">>,
      <<"SUB", "R">>,
      <<"SUBI", "I">>,
      <<"MOVZ", "IM">>,
      <<"MOVK", "IM">>,
      <<"LSR", "SHIFT">>,
      <<"LSL", "SHIFT">>,
      <<"STUR", "D">>,
      <<"LDUR", "D">>,
      <<"ASR", "SHIFT">>,
      <<"NOP", " ">>,
      <<"EOR", "R">>,
      <<"BREAK", "BREAK">>
    }

\* instructionIdentifier[m]: the format of mnemonic m, the empty string for a
\* mnemonic that is not in the map
instructionIdentifier(m) == Lookup(FormatTable, m)

\* -------------------------------------------------------------- Go maps
\* m[k] on a map[int]int64: the zero value for an absent key
MapGet(m, k) == IF k \in DOMAIN m THEN m[k] ELSE Zero64
\* m[k] = v: creates the key when it is absent
MapSet(m, k, v) == [x \in (DOMAIN m) \cup {k} |-> IF x = k THEN v ELSE m[x]]
\* make(map[int]int64)
EmptyMap == [x \in {} |-> Zero64]

\* ------------------------------------------------------------------ state
VARIABLES
    input,          \* the lines of the input file, in order
    pos,            \* number of lines the scanner has returned
    binaryNumber,   \* the trimmed text of the line read last
    pc,             \* "scan": in the scanner loop; "done": main returned;
                    \* "panic": main ended in a run-time panic
    registers,      \* map[int]int64
    memory,         \* map[int]int64
    memLocation,    \* instruction address
    cycle,          \* cycle counter
    breakFound,     \* the halt flag
    outputFile,     \* the disassembly listing: the lines written so far
    simOutputFile,  \* the simulation trace: the blocks written so far
    simClosed       \* simOutputFile.Close() has been called

vars == <<input, pos, binaryNumber, pc, registers, memory, memLocation, cycle,
          breakFound, outputFile, simOutputFile, simClosed>>

\* the part of the state the decode ladder reads and writes, as one record
Machine ==
    [registers |-> registers, memory |-> memory, memLocation |-> memLocation,
     cycle |-> cycle, breakFound |-> breakFound, outputFile |-> outputFile,
     simOutputFile |-> simOutputFile, simClosed |-> simClosed, panicked |-> FALSE]

\* one line of the disassembly listing: the bit groups printed first, then the
\* address, the mnemonic and the operands (numbers are kept as numbers)
ListingLine(kind, groups, addr, mnemonic, operands) ==
    [kind |-> kind, groups |-> groups, addr |-> addr, mnemonic |-> mnemonic,
     operands |-> operands]

\* outputFile.WriteString
WriteListing(s, line) == [s EXCEPT !.outputFile = Append(@, line)]
\* simOutputFile.WriteString: a write to a closed file fails, the error is dropped
WriteSim(s, block) ==
    IF s.simClosed THEN s ELSE [s EXCEPT !.simOutputFile = Append(@, block)]
\* an index or slice expression out of range
Panic(s) == [s EXCEPT !.panicked = TRUE]

\* the register index a 5-bit field names (r1, r2, r3 of the source)
Index(field) == ToInt(ParseInt(field))

\* printState: the snapshot block.  The rows of the data part follow Go's map
\* iteration order, which is not fixed; the block is kept as the cells printed.
printState(s, cyc, instructionAddr, instruction) ==
    WriteSim(s, [kind |-> "state", cycle |-> cyc, addr |-> instructionAddr,
                 instruction |-> instruction,
                 registers |-> [j \in 0..31 |-> MapGet(s.registers, j)],
                 data |-> {<<a, s.memory[a]>> : a \in DOMAIN s.memory}])

\* ------------------------------------------------- the decode ladder
\* Each block takes binaryNumber (bn) and the machine record and gives the
\* machine record after the block.  Blocks are listed innermost first.

\* 0xFFFF
Mask16 == [i \in 1..64 |-> IF i > 48 THEN 1 ELSE 0]

\* B block (363-382)
BBlock(bn, s) ==
    LET opcode == Slice(bn, 0, 6)
        offset == Slice(bn, 6, 32)
        parsed == ParseInt(offset)
        r2 == IF bn[7] = 1 THEN Sub64(parsed, Bit64(26)) ELSE parsed
        s1 == IF opcodeIdentifier(opcode) = "B"
              THEN [s EXCEPT !.cycle = @ + ToInt(r2)]
              ELSE s
    IN  WriteListing(s1, ListingLine("B", <<Prec(opcode, 6), Prec(offset, 26)>>,
                                     s.memLocation, opcodeIdentifier(opcode),
                                     <<ToInt(r2)>>))

\* CB block (384-407)
CBBlock(bn, s) ==
    LET opcode == Slice(bn, 0, 8)
        offset == Slice(bn, 8, 27)
        conditional == Slice(bn, 27, 32)
        parsed == ParseInt(offset)
        r1 == Index(conditional)
        r2 == IF bn[9] = 1 THEN Sub64(parsed, Bit64(19)) ELSE parsed
        mn == opcodeIdentifier(opcode)
        s1 == IF mn = "CBNZ" /\ MapGet(s.registers, r1) # Zero64
              THEN [s EXCEPT !.cycle = @ + ToInt(r2)]
              ELSE IF mn = "CBZ" /\ MapGet(s.registers, r1) = Zero64
              THEN [s EXCEPT !.cycle = @ + ToInt(r2)]
              ELSE s
    IN  WriteListing(s1, ListingLine("CB", <<Prec(opcode, 8), Prec(offset, 19),
                                             Prec(conditional, 5)>>,
                                     s.memLocation, mn, <<r1, ToInt(r2)>>))

\* IM block (409-430)
IMBlock(bn, s) ==
    LET opcode == Slice(bn, 0, 9)
        shiftCode == Slice(bn, 9, 11)
        field == Slice(bn, 11, 27)
        rd == Slice(bn, 27, 32)
        shifted == ToInt(ParseInt(shiftCode)) * 16
        im_field == ParseInt(field)
        im_rd == Index(rd)
        mn == opcodeIdentifier(opcode)
        s1 == IF mn = "MOVZ"
              THEN [s EXCEPT !.registers = MapSet(@, im_rd, Shl64(im_field, shifted))]
              ELSE IF mn = "MOVK"
              THEN [s EXCEPT !.registers =
                        MapSet(@, im_rd,
                               Or64(AndNot64(MapGet(@, im_rd), Shl64(Mask16, shifted)),
                                    Shl64(im_field, shifted)))]
              ELSE s
    IN  WriteListing(s1, ListingLine("IM", <<Prec(opcode, 9), Prec(shiftCode, 2),
                                             Prec(field, 16), Prec(rd, 5)>>,
                                     s.memLocation, mn,
                                     <<im_rd, ToInt(im_field), shifted>>))

\* NOP case (432-435)
NOPBlock(bn, s) ==
    WriteListing(s, ListingLine("NOP", <<Prec(bn, 32)>>, s.memLocation,
                                opcodeIdentifier(bn), <<>>))

\* BREAK case (437-443)
BREAKBlock(bn, s) ==
    WriteListing([s EXCEPT !.breakFound = TRUE],
                 ListingLine("BREAK",
                             <<Prec(Slice(bn, 0, 1), 1), Prec(Slice(bn, 1, 6), 5),
                               Prec(Slice(bn, 6, 11), 5), Prec(Slice(bn, 11, 16), 5),
                               Prec(Slice(bn, 16, 21), 5), Prec(Slice(bn, 21, 26), 5),
                               Prec(Slice(bn, 26, 32), 6)>>,
                             s.memLocation, opcodeIdentifier(bn), <<>>))

\* the final else (445-449): "Unknown Instruction!"; no address is printed
UnknownBlock(bn, s) ==
    WriteListing(s, ListingLine("unknown",
                                <<Prec(Slice(bn, 0, 8), 8), Prec(Slice(bn, 8, 11), 3),
                                  Prec(Slice(bn, 11, 16), 5), Prec(Slice(bn, 16, 21), 5),
                                  Prec(Slice(bn, 21, 26), 5), Prec(Slice(bn, 26, 32), 6)>>,
                                0, "", <<>>))

\* the end of the I block (451-458): the trace header, the snapshot, and the
\* advance of memLocation and cycle
TraceAndAdvance(s, instruction) ==
    [printState(WriteSim(s, [kind |-> "header", cycle |-> s.cycle,
                             addr |-> s.memLocation, instruction |-> instruction]),
                s.cycle, s.memLocation, instruction)
        EXCEPT !.memLocation = @ + 4, !.cycle = @ + 1]

\* IImmediate without the adjustment of 347-350: the field read as unsigned
IImmediateUnsigned(bn) == ParseInt(Slice(bn, 10, 22))

\* the immediate of the I block (339, 342, 347-350): the 12 characters parsed
\* in base 2, less 2^12 when the first of them is '1'
IImmediate(bn) ==
    LET parsed == ParseInt(Slice(bn, 10, 22))
    IN  IF bn[11] = 1 THEN Sub64(parsed, Bit64(12)) ELSE parsed

\* I block (337-459): the ADDI / SUBI chain with the B, CB, IM, NOP, BREAK and
\* unknown cases as its else-branches, then the trace output and the advance
IBlock(bn, s) ==
    LET opcode == Slice(bn, 0, 10)
        immediate == Slice(bn, 10, 22)
        rn == Slice(bn, 22, 27)
        rd == Slice(bn, 27, 32)
        r1 == Index(rn)
        r3 == Index(rd)
        r2 == IImmediate(bn)
        mn == opcodeIdentifier(opcode)
        s1 == IF mn = "ADDI"
              THEN [s EXCEPT !.registers = MapSet(@, r3, Add64(MapGet(@, r1), r2))]
              ELSE IF mn = "SUBI"
              THEN WriteListing(
                       [s EXCEPT !.registers = MapSet(@, r3, Sub64(MapGet(@, r1), r2))],
                       ListingLine("I", <<Prec(opcode, 10), Prec(immediate, 12),
                                          Prec(rn, 5), Prec(rd, 5)>>,
                                   s.memLocation, mn, <<r3, r1, ToInt(r2)>>))
              ELSE IF instructionIdentifier(opcodeIdentifier(Slice(bn, 0, 6))) = "B"
              THEN BBlock(bn, s)
              ELSE IF instructionIdentifier(opcodeIdentifier(Slice(bn, 0, 8))) = "CB"
              THEN CBBlock(bn, s)
              ELSE IF instructionIdentifier(opcodeIdentifier(Slice(bn, 0, 9))) = "IM"
              THEN IMBlock(bn, s)
              ELSE IF opcodeIdentifier(bn) = "NOP"
              THEN NOPBlock(bn, s)
              ELSE IF opcodeIdentifier(bn) = "BREAK"
              THEN BREAKBlock(bn, s)
              ELSE UnknownBlock(bn, s)
    IN  TraceAndAdvance(s1, opcodeIdentifier(Slice(bn, 0, 11)))

\* SHIFT block (291-313)
SHIFTBlock(bn, s) ==
    LET opcode == Slice(bn, 0, 11)
        rm == Slice(bn, 11, 16)
        shamt == Slice(bn, 16, 22)
        rn == Slice(bn, 22, 27)
        rd == Slice(bn, 27, 32)
        r1 == Index(rn)
        r3 == Index(rd)
        sh == ToInt(ParseInt(shamt))
        mn == opcodeIdentifier(opcode)
        s1 == IF mn = "LSL"
              THEN [s EXCEPT !.registers = MapSet(@, r3, Shl64(MapGet(@, r1), sh))]
              ELSE IF mn = "LSR"
              THEN [s EXCEPT !.registers = MapSet(@, r3, Shr64(MapGet(@, r1), sh))]
              ELSE IF mn = "ASR"
              THEN [s EXCEPT !.registers =
                        MapSet(@, r3, Shr64(Int32(MapGet(@, r1)), sh))]
              ELSE s
    IN  WriteListing(s1, ListingLine("SHIFT", <<Prec(opcode, 11), Prec(rm, 5),
                                                Prec(shamt, 6), Prec(rn, 5), Prec(rd, 5)>>,
                                     s.memLocation, mn, <<r3, r1, sh>>))

\* D block (315-335): the mnemonics tested are "LDR" and "STR"; the cell is
\* keyed by the register index r1 plus the offset
DBlock(bn, s) ==
    LET opcode == Slice(bn, 0, 11)
        address == Slice(bn, 11, 20)
        op2 == Slice(bn, 20, 22)
        rn == Slice(bn, 22, 27)
        rt == Slice(bn, 27, 32)
        r2 == ToInt(ParseInt(address))
        r1 == Index(rn)
        r3 == Index(rt)
        mn == opcodeIdentifier(opcode)
        s1 == IF mn = "LDR"
              THEN [s EXCEPT !.registers = MapSet(@, r3, MapGet(s.memory, r1 + r2))]
              ELSE IF mn = "STR"
              THEN [s EXCEPT !.memory = MapSet(@, r1 + r2, MapGet(s.registers, r3))]
              ELSE s
    IN  WriteListing(s1, ListingLine("D", <<Prec(opcode, 11), Prec(address, 9),
                                            Prec(op2, 2), Prec(rn, 5), Prec(rt, 5)>>,
                                     s.memLocation, mn, <<r3, r1, r2>>))

\* RUpdate with the destination and the first source confused: the result is
\* written to register r1
RUpdateWrongDest(regs, mn, r1, r2, r3) ==
    IF mn = "ADD" THEN MapSet(regs, r1, Add64(MapGet(regs, r1), MapGet(regs, r2)))
    ELSE IF mn = "SUB" THEN MapSet(regs, r1, Sub64(MapGet(regs, r1), MapGet(regs, r2)))
    ELSE IF mn = "AND" THEN MapSet(regs, r1, And64(MapGet(regs, r1), MapGet(regs, r2)))
    ELSE IF mn = "ORR" THEN MapSet(regs, r1, Or64(MapGet(regs, r1), MapGet(regs, r2)))
    ELSE IF mn = "EOR" THEN MapSet(regs, r1, Xor64(MapGet(regs, r1), MapGet(regs, r2)))
    ELSE regs

\* the register update of the R block (275-284): the registers after the
\* instruction with mnemonic mn, source indices r1 and r2, destination index r3
RUpdate(regs, mn, r1, r2, r3) ==
    IF mn = "ADD" THEN MapSet(regs, r3, Add64(MapGet(regs, r1), MapGet(regs, r2)))
    ELSE IF mn = "SUB" THEN MapSet(regs, r3, Sub64(MapGet(regs, r1), MapGet(regs, r2)))
    ELSE IF mn = "AND" THEN MapSet(regs, r3, And64(MapGet(regs, r1), MapGet(regs, r2)))
    ELSE IF mn = "ORR" THEN MapSet(regs, r3, Or64(MapGet(regs, r1), MapGet(regs, r2)))
    ELSE IF mn = "EOR" THEN MapSet(regs, r3, Xor64(MapGet(regs, r1), MapGet(regs, r2)))
    ELSE regs

\* R block (264-463): the slices at 265-269 need 32 characters.  Only the EOR
\* branch prints its listing line (286-289); the SHIFT, D and I tests are
\* else-branches of the mnemonic chain; simOutputFile is closed at the end (462)
RBlock(bn, s) ==
    IF Len(bn) < 32 THEN Panic(s)
    ELSE
    LET opcode == Slice(bn, 0, 11)
        rm == Slice(bn, 11, 16)
        shamt == Slice(bn, 16, 22)
        rn == Slice(bn, 22, 27)
        rd == Slice(bn, 27, 32)
        r2 == Index(rm)
        r1 == Index(rn)
        r3 == Index(rd)
        mn == opcodeIdentifier(opcode)
        s1 == IF mn \in {"ADD", "SUB", "AND", "ORR"}
              THEN [s EXCEPT !.registers = RUpdate(@, mn, r1, r2, r3)]
              ELSE IF mn = "EOR"
              THEN WriteListing(
                       [s EXCEPT !.registers = RUpdate(@, mn, r1, r2, r3)],
                       ListingLine("R", <<Prec(opcode, 11), Prec(rm, 5), Prec(shamt, 6),
                                          Prec(rn, 5), Prec(rd, 5)>>,
                                   s.memLocation, mn, <<r3, r1, r2>>))
              ELSE IF instructionIdentifier(opcodeIdentifier(Slice(bn, 0, 11))) = "SHIFT"
              THEN SHIFTBlock(bn, s)
              ELSE IF instructionIdentifier(opcodeIdentifier(Slice(bn, 0, 11))) = "D"
              THEN DBlock(bn, s)
              ELSE IF instructionIdentifier(opcodeIdentifier(Slice(bn, 0, 10))) = "I"
              THEN IBlock(bn, s)
              ELSE s
    IN  [s1 EXCEPT !.simClosed = TRUE]

\* the branch taken once breakFound is set (256-263): the line is listed as a
\* 32-bit data word; binaryNumber[0] needs a non-empty line
DataBlock(bn, s) ==
    IF Len(bn) < 1 THEN Panic(s)
    ELSE
    LET parsed == ParseInt(bn)
        decimalVal == IF bn[1] = 1 THEN Sub64(parsed, Bit64(32)) ELSE parsed
    IN  WriteListing(s, ListingLine("data", <<Prec(bn, 32)>>, s.memLocation, "",
                                    <<decimalVal>>))

\* the whole ladder (256-463); binaryNumber[0:11] at 264 needs 11 characters
Ladder(bn, s) ==
    IF s.breakFound THEN DataBlock(bn, s)
    ELSE IF Len(bn) < 11 THEN Panic(s)
    ELSE IF instructionIdentifier(opcodeIdentifier(Slice(bn, 0, 11))) = "R"
    THEN RBlock(bn, s)
    ELSE s

\* ---------------------------------------------------------------- inputs
\* n as w binary digits
RECURSIVE Bin(_, _)
Bin(n, w) == IF w = 0 THEN <<>> ELSE Bin(n \div 2, w - 1) \o <<n % 2>>

\* the key of the opcode table for a mnemonic
Key(mn) == (CHOOSE e \in OpcodeTable : e[2] = mn)[1]

\* encodings per format (section 4.2 of the specification; 265-269, 316-320,
\* 338-341, 364-365, 385-387, 410-413 of the source)
EncR(mn, rm, shamt, rn, rd) ==
    Key(mn) \o Bin(rm, 5) \o Bin(shamt, 6) \o Bin(rn, 5) \o Bin(rd, 5)
EncI(mn, imm, rn, rd) == Key(mn) \o Bin(imm, 12) \o Bin(rn, 5) \o Bin(rd, 5)
EncD(mn, offset, rn, rt) ==
    Key(mn) \o Bin(offset, 9) \o Bin(0, 2) \o Bin(rn, 5) \o Bin(rt, 5)
EncB(offset) == Key("B") \o Bin(offset, 26)
EncCB(mn, offset, rt) == Key(mn) \o Bin(offset, 19) \o Bin(rt, 5)
EncIM(mn, shiftCode, field, rd) ==
    Key(mn) \o Bin(shiftCode, 2) \o Bin(field, 16) \o Bin(rd, 5)

\* the lines input streams are drawn from
ValidLines ==
    { EncR("ADD", 1, 0, 0, 2), EncR("SUB", 2, 0, 1, 3), EncR("AND", 3, 0, 2, 1),
      EncR("ORR", 1, 0, 2, 3), EncR("EOR", 6, 0, 5, 4),
      EncI("ADDI", 5, 1, 1), EncI("SUBI", 2048, 1, 2),
      EncR("LSL", 0, 3, 2, 1), EncR("LSR", 0, 1, 2, 1), EncR("ASR", 0, 1, 2, 1),
      EncD("STUR", 4, 2, 1), EncD("LDUR", 4, 2, 1),
      EncB(2), EncB(Pow2(26) - 1),
      EncCB("CBZ", 2, 1), EncCB("CBNZ", 2, 1),
      EncIM("MOVZ", 1, 5, 1), EncIM("MOVK", 0, 7, 1), EncIM("MOVK", 3, 7, 2),
      Key("NOP"), Key("BREAK"),
      Bin(Pow2(16) - 1, 16) \o Bin(Pow2(16) - 1, 16) }

MalformedLines ==
    { SubSeq(EncR("ADD", 1, 0, 0, 2), 1, 31),    \* 31 characters
      EncR("EOR", 6, 0, 5, 4) \o <<0>>,          \* 33 characters
      <<1, 0, 1>>,
      <<>> }

SampleLines ==
    ValidLines \cup MalformedLines
    \cup { EncR("ADD", 1, 0, 0, 2) \o <<2>> }    \* a valid line, then a blank

Streams == UNION { [1..n -> SampleLines] : n \in 0..MaxLines }

\* ------------------------------------------------------------- behaviour
\* main up to the scanner loop (237-244)
Init ==
    /\ input \in Streams
    /\ pos = 0
    /\ binaryNumber = <<>>
    /\ pc = "scan"
    /\ registers = EmptyMap
    /\ memory = EmptyMap
    /\ memLocation = 96
    /\ cycle = 1
    /\ breakFound = FALSE
    /\ outputFile = <<>>
    /\ simOutputFile = <<>>
    /\ simClosed = FALSE

\* one iteration of the scanner loop (245-253)
ScanLine ==
    /\ pc = "scan"
    /\ pos < Len(input)
    /\ LET bn == TrimSpace(input[pos + 1])
       IN  /\ binaryNumber' = bn
           /\ outputFile' =
                  IF Len(bn) # 32
                  THEN Append(outputFile,
                              ListingLine("invalid", <<Prec(bn, 32)>>, 0, "", <<>>))
                  ELSE outputFile
    /\ pos' = pos + 1
    /\ UNCHANGED <<input, pc, registers, memory, memLocation, cycle, breakFound,
                   simOutputFile, simClosed>>

\* the scanner is exhausted: the ladder runs on binaryNumber and main returns
\* (256-464); the deferred Close calls run on return and on panic
AfterLoop ==
    /\ pc = "scan"
    /\ pos = Len(input)
    /\ LET t == Ladder(binaryNumber, Machine)
       IN  /\ registers' = t.registers
           /\ memory' = t.memory
           /\ memLocation' = t.memLocation
           /\ cycle' = t.cycle
           /\ breakFound' = t.breakFound
           /\ outputFile' = t.outputFile
           /\ simOutputFile' = t.simOutputFile
           /\ simClosed' = TRUE
           /\ pc' = IF t.panicked THEN "panic" ELSE "done"
    /\ UNCHANGED <<input, pos, binaryNumber>>

Next == ScanLine \/ AfterLoop

Spec == Init /\ [][Next]_vars

\* ------------------------------------------- the arithmetic of the blocks
\* The I block and the SHIFT block as functions of the line and the register
\* file: each is applied once to a line that passes its own format test.  The
\* immediates are all 12-bit fields; the shift amounts and the values of the
\* source register are samples.

\* lines with an I-format opcode: rn is register 1, rd is register 2
ILines == { EncI(mn, imm, 1, 2) : mn \in {"ADDI", "SUBI"}, imm \in 0..(Pow2(12) - 1) }

\* lines with a SHIFT-format opcode: rn is register 2, rd is register 1
ShiftLines ==
    { EncR(mn, 0, sh, 2, 1) : mn \in {"LSL", "LSR", "ASR"}, sh \in {0, 1, 4, 31, 33, 63} }

\* values of the source register: 0, 1, 2^40, 2^62, -1, -2, -2^40
RnValues ==
    { Zero64, Bit64(0), Bit64(40), Bit64(62), Not64(Zero64),
      Sub64(Zero64, Bit64(1)), Sub64(Zero64, Bit64(40)) }

BlockInit ==
    /\ input = <<>>
    /\ pos = 0
    /\ pc = "block"
    /\ \/ binaryNumber \in ILines /\ registers = EmptyMap
       \/ binaryNumber \in ShiftLines /\ registers \in { MapSet(EmptyMap, 2, v) : v \in RnValues }
    /\ memory = EmptyMap
    /\ memLocation = 96
    /\ cycle = 1
    /\ breakFound = FALSE
    /\ outputFile = <<>>
    /\ simOutputFile = <<>>
    /\ simClosed = FALSE

\* the machine variables after a block
BlockResult(t) ==
    /\ registers' = t.registers
    /\ memory' = t.memory
    /\ memLocation' = t.memLocation
    /\ cycle' = t.cycle
    /\ breakFound' = t.breakFound
    /\ outputFile' = t.outputFile
    /\ simOutputFile' = t.simOutputFile
    /\ simClosed' = t.simClosed
    /\ pc' = "done"
    /\ UNCHANGED <<input, pos, binaryNumber>>

\* the I block on a line that passes the test of 337
IStep ==
    /\ pc = "block"
    /\ instructionIdentifier(opcodeIdentifier(Slice(binaryNumber, 0, 10))) = "I"
    /\ BlockResult(IBlock(binaryNumber, Machine))

\* the SHIFT block on a line that passes the test of 291
ShiftStep ==
    /\ pc = "block"
    /\ instructionIdentifier(opcodeIdentifier(Slice(binaryNumber, 0, 11))) = "SHIFT"
    /\ BlockResult(SHIFTBlock(binaryNumber, Machine))

BlockNext == IStep \/ ShiftStep

BlockSpec == BlockInit /\ [][BlockNext]_vars

\* ================================================================ claims
\* Vocabulary of the claims.  The step that decodes and executes a line is
\* AfterLoop: it is the only step that runs the ladder, and the line it runs
\* it on is binaryNumber.

\* the 32-character line bn carries the opcode of mnemonic mn
Is(bn, mn) == Len(bn) = 32 /\ SubSeq(bn, 1, Len(Key(mn))) = Key(mn)
\* the unsigned value of the characters a+1..b of bn
FieldVal(bn, a, b) == ToInt(ParseInt(SubSeq(bn, a + 1, b)))
\* the two's-complement value of the characters a+1..b of bn
SignedVal(bn, a, b) == FieldVal(bn, a, b) - (IF bn[a + 1] = 1 THEN Pow2(b - a) ELSE 0)
\* a BREAK line is among the lines read so far
BreakRead == \E i \in 1..pos : TrimSpace(input[i]) = Key("BREAK")
\* no prefix of bn of length 6, 8, 9, 10, 11 or 32 is a key of the opcode table
IsUnknown(bn) ==
    Len(bn) = 32 /\ \A n \in {6, 8, 9, 10, 11, 32} : opcodeIdentifier(SubSeq(bn, 1, n)) = ""

\* C1: once a BREAK line has been processed, no step changes a register, a
\* memory cell or the cycle counter or appends to the simulation trace, and the
\* halt flag, once set, stays set.
C1_HaltIsFinal ==
    [][/\ BreakRead => /\ registers' = registers
                       /\ memory' = memory
                       /\ cycle' = cycle
                       /\ simOutputFile' = simOutputFile
       /\ breakFound => breakFound']_vars

\* C2: the step that executes a CBZ / CBNZ line moves the instruction address
\* by 4 * signed offset when the branch is taken (CBZ: register zero, CBNZ:
\* register non-zero) and by 4 otherwise, and changes no register or memory cell.
C2_ConditionalBranch ==
    [][(AfterLoop /\ (Is(binaryNumber, "CBZ") \/ Is(binaryNumber, "CBNZ"))) =>
          LET zero == MapGet(registers, FieldVal(binaryNumber, 27, 32)) = Zero64
              taken == IF Is(binaryNumber, "CBZ") THEN zero ELSE ~zero
          IN  /\ memLocation' = memLocation +
                     (IF taken THEN 4 * SignedVal(binaryNumber, 8, 27) ELSE 4)
              /\ registers' = registers
              /\ memory' = memory]_vars

\* C3: the step that executes a B line moves the instruction address by
\* 4 * the sign-extended 26-bit offset, whatever the sign of the offset.
C3_Branch ==
    [][(AfterLoop /\ Is(binaryNumber, "B")) =>
          memLocation' = memLocation + 4 * SignedVal(binaryNumber, 6, 32)]_vars

\* bit i (1 = most significant) of a word lies in the 16-bit window of shift
\* code c, i.e. it is one of the bits 16c .. 16c+15
InWindow(i, c) == (64 - i) \in (16 * c)..(16 * c + 15)
\* the bit of the 16-character field that falls on bit i of the word
FieldBit(bn, i, c) == bn[27 - ((64 - i) - 16 * c)]

\* C4: the step that executes a MOVK line leaves rd equal to its old value
\* outside the 16-bit window at shift_code * 16, and equal to the field inside it.
C4_MovkWindow ==
    [][(AfterLoop /\ Is(binaryNumber, "MOVK")) =>
          LET c == FieldVal(binaryNumber, 9, 11)
              rd == FieldVal(binaryNumber, 27, 32)
          IN  \A i \in 1..64 :
                  MapGet(registers', rd)[i] =
                      IF InWindow(i, c) THEN FieldBit(binaryNumber, i, c)
                      ELSE MapGet(registers, rd)[i]]_vars

\* C5: the step that executes a MOVZ line leaves rd equal to
\* field << (shift_code * 16): the field inside the window, zero outside.
C5_MovzValue ==
    [][(AfterLoop /\ Is(binaryNumber, "MOVZ")) =>
          LET c == FieldVal(binaryNumber, 9, 11)
              rd == FieldVal(binaryNumber, 27, 32)
          IN  \A i \in 1..64 :
                  MapGet(registers', rd)[i] =
                      IF InWindow(i, c) THEN FieldBit(binaryNumber, i, c) ELSE 0]_vars

\* C6: a line whose length is not 32 gets exactly one line of the listing, the
\* diagnostic written when it is read, and nothing else: reading it changes no
\* register, memory cell, address or cycle and writes no snapshot, and no
\* later step decodes or executes it.
C6_MalformedLineIsolated ==
    [][/\ (ScanLine /\ Len(binaryNumber') # 32) =>
              /\ Len(outputFile') = Len(outputFile) + 1
              /\ outputFile'[Len(outputFile')].kind = "invalid"
              /\ UNCHANGED <<registers, memory, memLocation, cycle, simOutputFile>>
       /\ (AfterLoop /\ pos >= 1 /\ Len(binaryNumber) # 32) =>
              /\ pc' = "done"
              /\ UNCHANGED <<registers, memory, memLocation, cycle, simOutputFile,
                             outputFile>>]_vars

\* C7: the step that executes a 32-bit line matching no entry of the opcode
\* table writes the unknown-instruction diagnostic, changes no register or
\* memory cell and does not set the halt flag.
C7_UnknownDiagnosed ==
    [][(AfterLoop /\ IsUnknown(binaryNumber)) =>
          /\ Len(outputFile') = Len(outputFile) + 1
          /\ outputFile'[Len(outputFile')].kind = "unknown"
          /\ registers' = registers
          /\ memory' = memory
          /\ ~breakFound']_vars

\* the operation an R-format mnemonic names
ROp(mn, a, b) ==
    CASE mn = "AND" -> And64(a, b)
      [] mn = "ADD" -> Add64(a, b)
      [] mn = "SUB" -> Sub64(a, b)
      [] mn = "EOR" -> Xor64(a, b)

C9_LoadStore ==
    [][/\ (AfterLoop /\ Is(binaryNumber, "STUR")) =>
              LET rn == FieldVal(binaryNumber, 22, 27)
                  rt == FieldVal(binaryNumber, 27, 32)
                  addr == ToInt(Add64(MapGet(registers, rn),
                                      ParseInt(SubSeq(binaryNumber, 12, 20))))
              IN  /\ memory' = MapSet(memory, addr, MapGet(registers, rt))
                  /\ registers' = registers
       /\ (AfterLoop /\ Is(binaryNumber, "LDUR")) =>
              LET rn == FieldVal(binaryNumber, 22, 27)
                  rt == FieldVal(binaryNumber, 27, 32)
                  addr == ToInt(Add64(MapGet(registers, rn),
                                      ParseInt(SubSeq(binaryNumber, 12, 20))))
              IN  /\ MapGet(registers', rt) = MapGet(memory, addr)
                  /\ memory' = memory]_vars

\* the 64-bit word of a small integer
Word(n) == IF n >= 0 THEN ParseInt(Bin(n, 30)) ELSE Sub64(Zero64, ParseInt(Bin(-n, 30)))

\* C10: the step that executes an ADDI line sets rd to (value of rn) + imm, the
\* step that executes a SUBI line sets rd to (value of rn) - imm, imm being the
\* two's-complement value of the 12-bit immediate.
C10_Immediate ==
    [][\A mn \in {"ADDI", "SUBI"} :
          (AfterLoop /\ Is(binaryNumber, mn)) =>
              LET imm == Word(SignedVal(binaryNumber, 10, 22))
                  rn == FieldVal(binaryNumber, 22, 27)
                  rd == FieldVal(binaryNumber, 27, 32)
              IN  MapGet(registers', rd) =
                      IF mn = "ADDI" THEN Add64(MapGet(registers, rn), imm)
                      ELSE Sub64(MapGet(registers, rn), imm)]_vars

ShiftLeft(w, n) == [i \in 1..64 |-> IF i + n <= 64 THEN w[i + n] ELSE 0]
LogicalRight(w, n) == [i \in 1..64 |-> IF i > n THEN w[i - n] ELSE 0]
ArithmeticRight(w, n) == [i \in 1..64 |-> IF i > n THEN w[i - n] ELSE w[1]]

ExecutedLines ==
    { i \in 1..Len(input) :
          /\ Len(TrimSpace(input[i])) = 32
          /\ \A j \in 1..(i - 1) : TrimSpace(input[j]) # Key("BREAK") }
\* the snapshots in the simulation trace
Snapshots == { j \in 1..Len(simOutputFile) : simOutputFile[j].kind = "state" }

\* C13: when the run has ended, the simulation trace holds exactly one
\* snapshot per executed instruction: as many snapshots as there are valid
\* 32-character lines up to and including the first BREAK line.
C13_SnapshotPerInstruction ==
    pc = "done" => Cardinality(Snapshots) = Cardinality(ExecutedLines)

\* C14: when the run has ended, the listing holds exactly one line per input
\* line, in input order: the invalid-length diagnostic for a line whose
\* trimmed length is not 32, a decode line or the unknown-instruction
\* diagnostic for any other line.
C14_OneListingLinePerInput ==
    pc = "done" =>
        /\ Len(outputFile) = Len(input)
        /\ \A i \in 1..Len(outputFile) :
               (outputFile[i].kind = "invalid") <=> (Len(TrimSpace(input[i])) # 32)

\* C15: every run ends, by a BREAK line or by the end of the input, and never
\* by a run-time error: each step either reads the next line of the input or
\* ends the run, the run ends only when the input is exhausted or a BREAK line
\* was read, and the ladder is run on a line only in the step after that line
\* was read.
C15_Terminates ==
    [][/\ pc' # "panic"
       /\ (pos' = pos + 1 /\ binaryNumber' = TrimSpace(input[pos + 1])) \/ pc' # "scan"
       /\ pc' = "done" => (pos = Len(input) \/ BreakRead)]_vars

\* C16: the cycle counter is 1 before the first instruction, never decreases,
\* and goes up by exactly 1 in the step that executes an instruction (so it is
\* k + 1 after k executed instructions) and in no other step.
C16_CycleCounts ==
    [][/\ pos = 0 => cycle = 1
       /\ cycle' >= cycle
       /\ (AfterLoop /\ Len(binaryNumber) = 32) => cycle' = cycle + 1
       /\ ~(AfterLoop /\ Len(binaryNumber) = 32) => cycle' = cycle]_vars

\* C17: the instruction address is 96 before the first instruction, is a
\* multiple of 4 in every state, and is exactly 4 greater after the step that
\* executes an instruction other than a branch.
C17_AddressAdvances ==
    [][/\ pos = 0 => memLocation = 96
       /\ memLocation % 4 = 0
       /\ memLocation' % 4 = 0
       /\ (/\ AfterLoop
           /\ Len(binaryNumber) = 32
           /\ \A mn \in {"B", "CBZ", "CBNZ"} : ~Is(binaryNumber, mn)) =>
              memLocation' = memLocation + 4]_vars

\* C18: the step that executes the all-zero line lists it as NOP and changes
\* no register or memory cell; the step that executes the line
\* 11111110110111101111111111100111 lists it as BREAK and sets the halt flag;
\* neither is listed under another format or as an unknown instruction.
C18_NopAndBreak ==
    [][/\ (AfterLoop /\ binaryNumber = Key("NOP")) =>
              /\ Len(outputFile') = Len(outputFile) + 1
              /\ outputFile'[Len(outputFile')].kind = "NOP"
              /\ outputFile'[Len(outputFile')].mnemonic = "NOP"
              /\ registers' = registers
              /\ memory' = memory
       /\ (AfterLoop /\ binaryNumber = Key("BREAK")) =>
              /\ Len(outputFile') = Len(outputFile) + 1
              /\ outputFile'[Len(outputFile')].kind = "BREAK"
              /\ outputFile'[Len(outputFile')].mnemonic = "BREAK"
              /\ breakFound']_vars

\* the format families the ladder tests for
Families == {"R", "SHIFT", "D", "I", "IM", "CB", "B"}
\* the keys of the opcode table that lead to a format test: those whose
\* mnemonic has a format family, and the full-line keys of NOP and BREAK
FamilyKeys ==
    { e[1] : e \in { f \in OpcodeTable :
                         \/ instructionIdentifier(f[2]) \in Families
                         \/ f[2] \in {"NOP", "BREAK"} } }
\* k1 is a proper prefix of k2
ProperPrefix(k1, k2) == Len(k1) < Len(k2) /\ SubSeq(k2, 1, Len(k1)) = k1
\* the format of the prefix of length n of bn
PrefixFormat(bn, n) == instructionIdentifier(opcodeIdentifier(SubSeq(bn, 1, n)))
\* the format tests that succeed on the 32-character line bn, each named by
\* the length of the prefix it looks up
PassedTests(bn) ==
    { n \in {6, 8, 9, 10, 11, 32} :
          \/ n = 11 /\ PrefixFormat(bn, n) \in {"R", "SHIFT", "D"}
          \/ n = 10 /\ PrefixFormat(bn, n) = "I"
          \/ n = 9 /\ PrefixFormat(bn, n) = "IM"
          \/ n = 8 /\ PrefixFormat(bn, n) = "CB"
          \/ n = 6 /\ PrefixFormat(bn, n) = "B"
          \/ n = 32 /\ opcodeIdentifier(bn) \in {"NOP", "BREAK"} }

\* C19: no key of the opcode table that leads to a format test is a proper
\* prefix of another such key, and on every 32-character line that is read at
\* most one of the format tests (11, 10, 9, 8, 6 bits, full line) succeeds.
C19_Unambiguous ==
    /\ \A k1 \in FamilyKeys : \A k2 \in FamilyKeys : ~ProperPrefix(k1, k2)
    /\ Len(binaryNumber) = 32 => Cardinality(PassedTests(binaryNumber)) <= 1

\* C19 witness: the all-zero line has been read; its 6-bit prefix is a key of
\* the table, and the only test it passes is the full-line test
C19_Witness ==
    /\ pos = 1
    /\ binaryNumber = Key("NOP")
    /\ opcodeIdentifier(SubSeq(binaryNumber, 1, 6)) # ""
    /\ PassedTests(binaryNumber) = {32}

\* the keys of a Go map that a step creates or gives another value
Changed(old, new) ==
    { k \in DOMAIN new : k \notin DOMAIN old \/ new[k] # old[k] }
    \cup { k \in DOMAIN old : k \notin DOMAIN new }

\* the line that is executed carries the opcode of mnemonic mn (a line longer
\* than 32 characters is executed on its first 32 characters)
Executes(bn, mn) == Len(bn) >= 32 /\ SubSeq(bn, 1, Len(Key(mn))) = Key(mn)

\* C20: the step that executes a line changes at most one cell: an R, I, IM,
\* SHIFT or load line changes no memory cell and no register but rd / rt, a
\* store line changes no register and no memory cell but the addressed one,
\* any other line changes no register and no memory cell; reading a line
\* changes nothing; no register with an index outside 0 .. 31 exists.
C20_Frame ==
    [][/\ ScanLine => (registers' = registers /\ memory' = memory)
       /\ AfterLoop =>
              LET regs == Changed(registers, registers')
                  mem == Changed(memory, memory')
              IN  /\ Cardinality(regs) + Cardinality(mem) <= 1
                  /\ IF \E mn \in {"ADD", "SUB", "AND", "ORR", "EOR", "ADDI", "SUBI",
                                   "MOVZ", "MOVK", "LSL", "LSR", "ASR", "LDUR"} :
                            Executes(binaryNumber, mn)
                     THEN mem = {} /\ regs \subseteq {FieldVal(binaryNumber, 27, 32)}
                     ELSE IF Executes(binaryNumber, "STUR")
                     THEN /\ regs = {}
                          /\ mem \subseteq
                                 {ToInt(Add64(MapGet(registers,
                                                     FieldVal(binaryNumber, 22, 27)),
                                              ParseInt(SubSeq(binaryNumber, 12, 20))))}
                     ELSE regs = {} /\ mem = {}
       /\ DOMAIN registers' \subseteq 0..31]_vars

\* C20 witness: an EOR R4, R5, R6 line has been executed: register 4 is the
\* only cell that exists, and the line is in the listing
C20_Witness ==
    /\ pc = "done"
    /\ binaryNumber = EncR("EOR", 6, 0, 5, 4)
    /\ DOMAIN registers = {4}
    /\ memory = EmptyMap
    /\ Len(outputFile) >= 1
    /\ outputFile[Len(outputFile)].mnemonic = "EOR"

====
